---- MODULE Spec2Model ----
(***************************************************************************)
(* Model of the string_colorization crate (src/src/lib.rs): the Colorizer  *)
(* style descriptor with its builder and join_with, the renderer apply,    *)
(* and the colorize entry point with its address-based rule filter,        *)
(* breakpoint partition, per-segment composition and right-to-left splice. *)
(***************************************************************************)
EXTENDS Integers, Sequences, FiniteSets

VARIABLES
    \* ---- one call of colorize ----
    should_colorize,       \* colored::control::SHOULD_COLORIZE, read once per call
    input,                 \* the &str argument: [ptr, len] into memory
    general_colorization,  \* Option<Colorizer>: <<>> or <<Colorizer>>
    pulled,                \* items taken so far from the caller's input_modifiers iterator
    foreign_pulled,        \* history: how many of them lay outside the input's addresses
    ranges_and_modifiers,  \* Vec<(usize, usize, Colorizer)> collected at lines 601-617
    bounds,                \* Vec<usize> of lines 619-624
    segments,              \* the second ranges_and_modifiers (lines 627-640), sorted
    spliced,               \* how many segments the for_each of lines 643-647 has consumed
    output,                \* the String being built (line 642)
    pc,                    \* position inside colorize
    \* ---- Colorizer values built and joined by a caller ----
    lhs,                   \* a Colorizer under construction (receiver)
    rhs,                   \* a second Colorizer under construction (argument)
    sum,                   \* lhs.join_with(rhs), once computed
    bpc                    \* "build" while building, "joined" after join_with

vars == <<should_colorize, input, general_colorization, pulled, foreign_pulled,
          ranges_and_modifiers, bounds, segments, spliced, output, pc, lhs, rhs, sum, bpc>>

colorizeVars == <<should_colorize, input, general_colorization, pulled, foreign_pulled,
                  ranges_and_modifiers, bounds, segments, spliced, output, pc>>

builderVars == <<lhs, rhs, sum, bpc>>

----------------------------------------------------------------------------
(* Bounds of the model *)

\* longest input, in bytes
MaxLen == 3
\* most rules a caller's iterator yields in one call
MaxRules == 2
\* colours 1..NumColors stand for the values of colored::Color
NumColors == 2
\* the builder uses the styles of index 0..MaxStyle (Clear, Bold, Dimmed, ...)
MaxStyle == 2

----------------------------------------------------------------------------
(* Option, u16 bit operations *)

\* Option::None, for Option<Color> and Option<u16>
None == -1

Colors == 1..NumColors

\* width of style_const (u16)
StyleBits == 16

RECURSIVE Pow2(_)
Pow2(n) == IF n = 0 THEN 1 ELSE 2 * Pow2(n - 1)

\* 1 << n on a u16
Shl1(n) == Pow2(n) % Pow2(StyleBits)

RECURSIVE BitOr(_, _)
BitOr(a, b) ==
    IF a = 0 THEN b
    ELSE IF b = 0 THEN a
    ELSE (IF a % 2 = 1 \/ b % 2 = 1 THEN 1 ELSE 0) + 2 * BitOr(a \div 2, b \div 2)

RECURSIVE BitAnd(_, _)
BitAnd(a, b) ==
    IF a = 0 \/ b = 0 THEN 0
    ELSE (IF a % 2 = 1 /\ b % 2 = 1 THEN 1 ELSE 0) + 2 * BitAnd(a \div 2, b \div 2)

----------------------------------------------------------------------------
(* Styles and the Colorizer struct *)

\* sytle_to_index
Clear == 0
Bold == 1
Dimmed == 2
Underline == 3
Reversed == 4
Italic == 5
Blink == 6
Hidden == 7
Strikethrough == 8

\* const STYLES: [Styles; 9], in array order
STYLES == <<Clear, Bold, Dimmed, Underline, Reversed, Italic, Blink, Hidden, Strikethrough>>

sytle_to_index(style) == style

\* struct Colorizer
Colorizer(fg, bg, sc) == [foreground |-> fg, background |-> bg, style_const |-> sc]

\* Colorizer::new()
new == Colorizer(None, None, None)

\* Colorizer::foreground(self, color)
foreground(self, color) == [self EXCEPT !.foreground = color]

\* Colorizer::background(self, color)
background(self, color) == [self EXCEPT !.background = color]

\* a variant of style whose Clear arm keeps the colours
style_keeping_colors(self, st) ==
    IF st = Clear
    THEN [self EXCEPT !.style_const = Shl1(sytle_to_index(Clear))]
    ELSE LET this_style_const == IF self.style_const = None THEN 0 ELSE self.style_const
         IN [self EXCEPT !.style_const = BitOr(this_style_const, Shl1(sytle_to_index(st)))]

\* Colorizer::style(self, style)
style(self, st) ==
    IF st = Clear
    THEN Colorizer(None, None, Shl1(sytle_to_index(Clear)))
    ELSE LET this_style_const == IF self.style_const = None THEN 0 ELSE self.style_const
         IN [self EXCEPT !.style_const = BitOr(this_style_const, Shl1(sytle_to_index(st)))]

\* join_with with the first operand winning
join_with_first_wins(self, other) ==
    LET fg == IF self.foreground # None THEN self.foreground ELSE other.foreground
        bg == IF self.background # None THEN self.background ELSE other.background
    IN  IF self.style_const # None /\ other.style_const # None
        THEN IF BitAnd(other.style_const, Shl1(sytle_to_index(Clear))) = Shl1(sytle_to_index(Clear))
             THEN other
             ELSE Colorizer(fg, bg, BitOr(self.style_const, other.style_const))
        ELSE Colorizer(fg, bg, IF other.style_const # None THEN other.style_const
                               ELSE self.style_const)

\* join_with where a Clear in `other` resets whatever self.style_const is
join_with_clear_always(self, other) ==
    LET fg == IF other.foreground # None THEN other.foreground ELSE self.foreground
        bg == IF other.background # None THEN other.background ELSE self.background
    IN  IF other.style_const # None
           /\ BitAnd(other.style_const, Shl1(sytle_to_index(Clear))) = Shl1(sytle_to_index(Clear))
        THEN other
        ELSE IF self.style_const # None /\ other.style_const # None
        THEN Colorizer(fg, bg, BitOr(self.style_const, other.style_const))
        ELSE Colorizer(fg, bg, IF other.style_const # None THEN other.style_const
                               ELSE self.style_const)

\* a variant of join_with whose last arm takes the style_const of the second operand
\* also when it is None
join_with_style_of_other(self, other) ==
    LET fg1 == IF other.foreground # None THEN other.foreground ELSE self.foreground
        bg1 == IF other.background # None THEN other.background ELSE self.background
    IN  IF self.style_const # None /\ other.style_const # None
        THEN LET is_clear_style ==
                     BitAnd(other.style_const, Shl1(sytle_to_index(Clear)))
                         = Shl1(sytle_to_index(Clear))
             IN  IF is_clear_style
                 THEN Colorizer(other.foreground, other.background, other.style_const)
                 ELSE Colorizer(fg1, bg1, BitOr(self.style_const, other.style_const))
        ELSE Colorizer(fg1, bg1, other.style_const)

\* Colorizer::join_with(self, new); the parameter is named other, new being the constructor
join_with(self, other) ==
    LET fg1 == IF other.foreground # None THEN other.foreground ELSE self.foreground
        bg1 == IF other.background # None THEN other.background ELSE self.background
    IN  IF self.style_const # None /\ other.style_const # None
        THEN LET this_style_const == self.style_const
                 other_style_const == other.style_const
                 is_clear_style ==
                     BitAnd(other_style_const, Shl1(sytle_to_index(Clear)))
                         = Shl1(sytle_to_index(Clear))
             IN  IF is_clear_style
                 THEN Colorizer(other.foreground, other.background, other.style_const)
                 ELSE Colorizer(fg1, bg1, BitOr(this_style_const, other_style_const))
        ELSE IF other.style_const # None
             THEN Colorizer(fg1, bg1, other.style_const)
             ELSE Colorizer(fg1, bg1, self.style_const)

\* Colorizer::get_styles: the styles of STYLES whose bit is set, in array order
get_styles(self) ==
    SelectSeq(STYLES, LAMBDA s:
        self.style_const # None
        /\ BitAnd(self.style_const, Shl1(sytle_to_index(s))) = Shl1(sytle_to_index(s)))

----------------------------------------------------------------------------
(* Bytes, escape sequences and the renderer *)

\* the bytes ESC [ m and the digit 0 of an ANSI escape sequence
ESC == 27
LBRACKET == 91
LOWER_M == 109
DIGIT0 == 48

\* "\x1B[0m", the reset sequence colored writes after a styled string
ResetSeq == <<ESC, LBRACKET, DIGIT0, LOWER_M>>

\* Color::to_fg_str as used by Colorize::color: colour c is "3c"
FgSeq(color) == <<ESC, LBRACKET, DIGIT0 + 3, DIGIT0 + color, LOWER_M>>

\* Color::to_bg_str as used by Colorize::on_color: colour c is "4c"
BgSeq(color) == <<ESC, LBRACKET, DIGIT0 + 4, DIGIT0 + color, LOWER_M>>

\* the SGR digit colored writes for each of Styles (Bold 1, Dimmed 2, Underline 4,
\* Reversed 7, Italic 3, Blink 5, Hidden 8, Strikethrough 9); Clear writes nothing
StyleDigit == <<0, 1, 2, 4, 7, 3, 5, 8, 9>>

StyleSeq(st) == <<ESC, LBRACKET, DIGIT0 + StyleDigit[sytle_to_index(st) + 1], LOWER_M>>

\* does `text` hold the bytes of `pat` from position i on
MatchesAt(text, i, pat) ==
    /\ i + Len(pat) - 1 <= Len(text)
    /\ \A j \in 1..Len(pat) : text[i + j - 1] = pat[j]

\* ColoredString::escape_inner_reset_sequences: the opening sequence is written
\* again after every reset sequence found inside the text
RECURSIVE escape_inner_reset_sequences(_, _, _)
escape_inner_reset_sequences(text, i, open) ==
    IF i > Len(text) THEN <<>>
    ELSE IF MatchesAt(text, i, ResetSeq)
         THEN ResetSeq \o open \o escape_inner_reset_sequences(text, i + Len(ResetSeq), open)
         ELSE <<text[i]>> \o escape_inner_reset_sequences(text, i + 1, open)

\* Display of a ColoredString carrying one colour or style: opening sequence, the
\* text with inner resets escaped, reset sequence
to_string(open, text) == open \o escape_inner_reset_sequences(text, 1, open) \o ResetSeq

\* a variant of apply_styles that wraps the styles of the highest index first
RECURSIVE apply_styles_descending(_, _)
apply_styles_descending(styles, text) ==
    IF styles = <<>> THEN text
    ELSE LET last == styles[Len(styles)]
         IN  apply_styles_descending(SubSeq(styles, 1, Len(styles) - 1),
                                     IF last = Clear THEN text
                                     ELSE to_string(StyleSeq(last), text))

\* the loop of apply over get_styles (lines 483-496): Colorize::clear yields a plain
\* ColoredString, whose Display is the text itself
RECURSIVE apply_styles(_, _)
apply_styles(styles, text) ==
    IF styles = <<>> THEN text
    ELSE apply_styles(Tail(styles),
                      IF Head(styles) = Clear THEN text
                      ELSE to_string(StyleSeq(Head(styles)), text))

\* a variant of apply that always goes through a ColoredString with a reset at
\* its end, also when the Colorizer sets nothing
apply_always_reset(self, text) ==
    LET styled == apply_styles(get_styles(self), text)
        with_bg == IF self.background # None
                   THEN to_string(BgSeq(self.background), styled) ELSE styled
    IN  IF self.foreground # None
        THEN to_string(FgSeq(self.foreground), with_bg) ELSE with_bg \o ResetSeq

\* a variant of apply that wraps the foreground before the background
apply_foreground_first(self, text) ==
    LET styled == apply_styles(get_styles(self), text)
        with_fg == IF self.foreground # None
                   THEN to_string(FgSeq(self.foreground), styled) ELSE styled
    IN  IF self.background # None
        THEN to_string(BgSeq(self.background), with_fg) ELSE with_fg

\* Colorizer::apply(&self, input)
apply(self, text) ==
    LET styled == apply_styles(get_styles(self), text)
        with_bg == IF self.background # None
                   THEN to_string(BgSeq(self.background), styled) ELSE styled
    IN  IF self.foreground # None
        THEN to_string(FgSeq(self.foreground), with_bg) ELSE with_bg

----------------------------------------------------------------------------
(* Memory, string slices *)

\* addresses of the modelled memory: the input starts at address 1, so one byte of
\* other memory lies before it and at least one after it
Addresses == 0..(MaxLen + 2)

\* every &str a caller can pass: a start address and a length inside the memory
Slices == {s \in [ptr : Addresses, len : 0..(MaxLen + 2)] : s.ptr + s.len <= MaxLen + 2}

\* the byte stored at an address (a letter, never ESC); equal bytes recur at
\* different addresses
ByteAt(a) == 97 + (a % MaxLen)

\* the bytes of a &str
Bytes(s) == [i \in 1..s.len |-> ByteAt(s.ptr + i - 1)]

\* mem_dir_of_string telling a slice by its length alone, as if every &str began
\* at offset 0 of the input
mem_dir_of_string_no_address(string) == <<0, string.len>>

\* mem_dir_of_string
mem_dir_of_string(string) == <<string.ptr, string.ptr + string.len>>

\* a variant of range_contains_other in which ranges that only touch count
range_contains_other_inclusive(range_1_start, range_1_end, range_2_start, range_2_end) ==
    range_2_end >= range_1_start /\ range_2_start <= range_1_end

\* range_contains_other
range_contains_other(range_1_start, range_1_end, range_2_start, range_2_end) ==
    range_2_end > range_1_start /\ range_2_start < range_1_end

\* usize::checked_sub(..).unwrap_or(0)
checked_sub_or_0(a, b) == IF a >= b THEN a - b ELSE 0

min(a, b) == IF a <= b THEN a ELSE b

----------------------------------------------------------------------------
(* colorize: collecting the rules (lines 596-617) *)

\* a variant of relative_range without the .min(input_len) of lines 611-612
relative_range_unclamped(in, str_slice) ==
    LET input_start == mem_dir_of_string(in)[1]
        offset_start == mem_dir_of_string(str_slice)[1]
        offset_end == mem_dir_of_string(str_slice)[2]
    IN  <<checked_sub_or_0(offset_start, input_start),
          checked_sub_or_0(offset_end, input_start)>>

\* the clamped offsets of lines 609-615, relative to the input
relative_range(in, str_slice) ==
    LET input_start == mem_dir_of_string(in)[1]
        input_len == in.len
        offset_start == mem_dir_of_string(str_slice)[1]
        offset_end == mem_dir_of_string(str_slice)[2]
    IN  <<min(checked_sub_or_0(offset_start, input_start), input_len),
          min(checked_sub_or_0(offset_end, input_start), input_len)>>

\* the two filters of lines 606-608 and 616: does the rule reach the Vec
is_retained(in, str_slice) ==
    LET input_start == mem_dir_of_string(in)[1]
        input_end == mem_dir_of_string(in)[2]
        offset_start == mem_dir_of_string(str_slice)[1]
        offset_end == mem_dir_of_string(str_slice)[2]
        rel == relative_range(in, str_slice)
    IN  /\ range_contains_other(offset_start, offset_end, input_start, input_end)
        /\ rel[2] > rel[1]

\* a variant of collect_item that puts the item in front of those collected before,
\* as if the general Colorizer were chained after input_modifiers
collect_item_in_front(acc, in, str_slice, value) ==
    IF is_retained(in, str_slice)
    THEN LET rel == relative_range(in, str_slice)
         IN  <<[start |-> rel[1], end |-> rel[2], modifier |-> value]>> \o acc
    ELSE acc

\* one item of the chained iterator going through map/filter/map/filter/collect
collect_item(acc, in, str_slice, value) ==
    IF is_retained(in, str_slice)
    THEN LET rel == relative_range(in, str_slice)
         IN  Append(acc, [start |-> rel[1], end |-> rel[2], modifier |-> value])
    ELSE acc

----------------------------------------------------------------------------
(* colorize: breakpoints and segments (lines 619-640) *)

\* flat_map(|(start, end, _)| [*start, *end])
RECURSIVE flat_bounds(_)
flat_bounds(ranges) ==
    IF ranges = <<>> THEN <<>>
    ELSE <<Head(ranges).start, Head(ranges).end>> \o flat_bounds(Tail(ranges))

\* insertion of x into an ascending sequence, after the elements equal to it
RECURSIVE insert_sorted(_, _)
insert_sorted(sorted, x) ==
    IF sorted = <<>> THEN <<x>>
    ELSE IF x < Head(sorted) THEN <<x>> \o sorted
    ELSE <<Head(sorted)>> \o insert_sorted(Tail(sorted), x)

\* a variant of line 623 that leaves the breakpoints in the order of the rules
sort_skipped(v) == v

\* Vec::sort on usize
RECURSIVE sort(_)
sort(v) == IF v = <<>> THEN <<>> ELSE insert_sorted(sort(SubSeq(v, 1, Len(v) - 1)), v[Len(v)])

\* a variant of line 624 that leaves the sorted Vec as it is
dedup_skipped(v) == v

\* Vec::dedup: consecutive equal elements collapse to one
RECURSIVE dedup(_)
dedup(v) ==
    IF Len(v) <= 1 THEN v
    ELSE IF v[1] = v[2] THEN dedup(Tail(v))
    ELSE <<v[1]>> \o dedup(Tail(v))

\* lines 619-624
compute_bounds(ranges) == dedup(sort(flat_bounds(ranges)))

\* the loop of lines 631-636 keeping only the last rule found instead of joining
RECURSIVE compose_overwrite(_, _, _, _)
compose_overwrite(colorization, ranges, start, end) ==
    IF ranges = <<>> THEN colorization
    ELSE compose_overwrite(
             IF range_contains_other(start, end, Head(ranges).start, Head(ranges).end)
             THEN Head(ranges).modifier
             ELSE colorization,
             Tail(ranges), start, end)

\* the loop of lines 631-636 with the operands of join_with swapped
RECURSIVE compose_reversed(_, _, _, _)
compose_reversed(colorization, ranges, start, end) ==
    IF ranges = <<>> THEN colorization
    ELSE compose_reversed(
             IF range_contains_other(start, end, Head(ranges).start, Head(ranges).end)
             THEN join_with(Head(ranges).modifier, colorization)
             ELSE colorization,
             Tail(ranges), start, end)

\* the loop of lines 631-636: join_with over the collected rules that the window
\* start..end reaches, in Vec order
RECURSIVE compose(_, _, _, _)
compose(colorization, ranges, start, end) ==
    IF ranges = <<>> THEN colorization
    ELSE compose(
             IF range_contains_other(start, end, Head(ranges).start, Head(ranges).end)
             THEN join_with(colorization, Head(ranges).modifier)
             ELSE colorization,
             Tail(ranges), start, end)

\* bounds.windows(2).map(..).collect() of lines 627-639
windows_to_segments(bnds, ranges) ==
    [i \in 1..(IF Len(bnds) >= 2 THEN Len(bnds) - 1 ELSE 0) |->
        [start |-> bnds[i], end |-> bnds[i + 1],
         modifier |-> compose(new, ranges, bnds[i], bnds[i + 1])]]

\* line 640 without .reverse(): ascending by start
RECURSIVE sort_by_start(_)
sort_by_start(v) ==
    IF v = <<>> THEN <<>>
    ELSE LET rest == sort_by_start(SubSeq(v, 1, Len(v) - 1))
             x == v[Len(v)]
             before == SelectSeq(rest, LAMBDA y : y.start <= x.start)
             after == SelectSeq(rest, LAMBDA y : y.start > x.start)
         IN  before \o <<x>> \o after

\* insertion into a sequence descending by start, after the elements of equal start
RECURSIVE insert_by_start_reversed(_, _)
insert_by_start_reversed(sorted, x) ==
    IF sorted = <<>> THEN <<x>>
    ELSE IF x.start > Head(sorted).start THEN <<x>> \o sorted
    ELSE <<Head(sorted)>> \o insert_by_start_reversed(Tail(sorted), x)

\* sort_by(|a, b| a.start.cmp(b.start).reverse()) of line 640 (stable)
RECURSIVE sort_by_start_reversed(_)
sort_by_start_reversed(v) ==
    IF v = <<>> THEN <<>>
    ELSE insert_by_start_reversed(sort_by_start_reversed(SubSeq(v, 1, Len(v) - 1)), v[Len(v)])

\* a variant of splice that forgets the part of the output after the segment
splice_without_tail(out, seg) ==
    LET modified == apply(seg.modifier, SubSeq(out, seg.start + 1, seg.end))
    IN  SubSeq(out, 1, seg.start) \o modified

\* the closure of lines 644-647 on one segment
splice(out, seg) ==
    LET modified == apply(seg.modifier, SubSeq(out, seg.start + 1, seg.end))
    IN  SubSeq(out, 1, seg.start) \o modified \o SubSeq(out, seg.end + 1, Len(out))

----------------------------------------------------------------------------
(* The calls of colorize that are explored *)

\* the Colorizers a rule carries: two foreground colours and the Clear style
RuleColorizers == {foreground(new, 1), foreground(new, NumColors), style(new, Clear)}

\* Option<Colorizer>: <<>> is None, <<c>> is Some(c)
NoColorizer == <<>>
Some(c) == <<c>>
unwrap(opt) == opt[1]

\* the general_colorization argument
GeneralChoices ==
    {NoColorizer, Some(foreground(new, NumColors)), Some(style(background(new, 1), Bold))}

\* the input argument: a &str of 0..MaxLen bytes at address 1
InputChoices == {s \in Slices : s.ptr = 1 /\ s.len <= MaxLen}

Init ==
    /\ should_colorize \in BOOLEAN
    /\ input \in InputChoices
    /\ general_colorization \in GeneralChoices
    /\ pulled = 0
    /\ foreign_pulled = 0
    /\ ranges_and_modifiers = <<>>
    /\ bounds = <<>>
    /\ segments = <<>>
    /\ spliced = 0
    /\ output = <<>>
    /\ pc = "call"
    /\ lhs = new /\ rhs = new /\ sum = new /\ bpc = "idle"

\* lines 589-591: styling is disabled, the input is returned as it is
Bypass ==
    /\ pc = "call"
    /\ ~should_colorize
    /\ output' = Bytes(input)
    /\ pc' = "done"
    /\ UNCHANGED <<should_colorize, input, general_colorization, pulled, foreign_pulled,
                   ranges_and_modifiers, bounds, segments, spliced>>
    /\ UNCHANGED builderVars

\* Begin without the check of line 589: the call goes on although styling is off
Begin_unguarded ==
    /\ pc = "call"
    /\ \E e \in Addresses :
          LET tail == IF general_colorization # NoColorizer
                      THEN [str |-> input, value |-> unwrap(general_colorization)]
                      ELSE [str |-> [ptr |-> e, len |-> 0], value |-> new]
          IN  ranges_and_modifiers' = collect_item(<<>>, input, tail.str, tail.value)
    /\ pc' = "collect"
    /\ UNCHANGED <<should_colorize, input, general_colorization, pulled, foreign_pulled,
                   bounds, segments, spliced, output>>
    /\ UNCHANGED builderVars

\* Begin with (input, Colorizer::new()) as the placeholder of line 598
Begin_placeholder_is_input ==
    /\ pc = "call"
    /\ should_colorize
    /\ LET tail == IF general_colorization # NoColorizer
                   THEN [str |-> input, value |-> unwrap(general_colorization)]
                   ELSE [str |-> input, value |-> new]
       IN  ranges_and_modifiers' = collect_item(<<>>, input, tail.str, tail.value)
    /\ pc' = "collect"
    /\ UNCHANGED <<should_colorize, input, general_colorization, pulled, foreign_pulled,
                   bounds, segments, spliced, output>>
    /\ UNCHANGED builderVars

\* lines 592-599 and the first item of the chain: (input, general) when a general
\* Colorizer is given, else ("", Colorizer::new()), the empty literal lying at some
\* address
Begin ==
    /\ pc = "call"
    /\ should_colorize
    /\ \E e \in Addresses :
          LET tail == IF general_colorization # NoColorizer
                      THEN [str |-> input, value |-> unwrap(general_colorization)]
                      ELSE [str |-> [ptr |-> e, len |-> 0], value |-> new]
          IN  ranges_and_modifiers' = collect_item(<<>>, input, tail.str, tail.value)
    /\ pc' = "collect"
    /\ UNCHANGED <<should_colorize, input, general_colorization, pulled, foreign_pulled,
                   bounds, segments, spliced, output>>
    /\ UNCHANGED builderVars

\* do the address ranges of two &str cross (touching ends do not count)
address_ranges_cross(a, b) == a.ptr < b.ptr + b.len /\ b.ptr < a.ptr + a.len

\* lines 601-617, one item of input_modifiers: the caller's iterator yields the
\* rule (str_slice, value)
PullModifier(str_slice, value) ==
    /\ pc = "collect"
    /\ pulled < MaxRules
    /\ ranges_and_modifiers' = collect_item(ranges_and_modifiers, input, str_slice, value)
    /\ pulled' = pulled + 1
    /\ foreign_pulled' = foreign_pulled + (IF address_ranges_cross(str_slice, input) THEN 0 ELSE 1)
    /\ UNCHANGED <<should_colorize, input, general_colorization,
                   bounds, segments, spliced, output, pc>>
    /\ UNCHANGED builderVars

\* lines 619-642: the iterator is exhausted; breakpoints, segments, their sort, and
\* the copy of the input
Resolve ==
    /\ pc = "collect"
    /\ bounds' = compute_bounds(ranges_and_modifiers)
    /\ segments' = sort_by_start_reversed(windows_to_segments(bounds', ranges_and_modifiers))
    /\ output' = Bytes(input)
    /\ spliced' = 0
    /\ pc' = "splice"
    /\ UNCHANGED <<should_colorize, input, general_colorization, pulled, foreign_pulled,
                   ranges_and_modifiers>>
    /\ UNCHANGED builderVars

\* lines 643-647: the next segment is rendered and spliced into output
Splice ==
    /\ pc = "splice"
    /\ spliced < Len(segments)
    /\ output' = splice(output, segments[spliced + 1])
    /\ spliced' = spliced + 1
    /\ UNCHANGED <<should_colorize, input, general_colorization, pulled, foreign_pulled,
                   ranges_and_modifiers, bounds, segments, pc>>
    /\ UNCHANGED builderVars

\* line 648
Return ==
    /\ pc = "splice"
    /\ spliced = Len(segments)
    /\ pc' = "done"
    /\ UNCHANGED <<should_colorize, input, general_colorization, pulled, foreign_pulled,
                   ranges_and_modifiers, bounds, segments, spliced, output>>
    /\ UNCHANGED builderVars

Next ==
    \/ Bypass
    \/ Begin
    \/ \E str_slice \in Slices, value \in RuleColorizers : PullModifier(str_slice, value)
    \/ Resolve
    \/ Splice
    \/ Return

Spec == Init /\ [][Next]_vars

----------------------------------------------------------------------------
(* colorize with fewer Colorizers, for the properties of offsets and splicing *)

\* the Colorizers a rule carries here: one that writes codes and one that writes none
OffsetRuleColorizers == {foreground(new, 1), style(new, Clear)}

OffsetGeneralChoices == {NoColorizer, Some(foreground(new, NumColors))}

OInit ==
    /\ should_colorize \in BOOLEAN
    /\ input \in InputChoices
    /\ general_colorization \in OffsetGeneralChoices
    /\ pulled = 0
    /\ foreign_pulled = 0
    /\ ranges_and_modifiers = <<>>
    /\ bounds = <<>>
    /\ segments = <<>>
    /\ spliced = 0
    /\ output = <<>>
    /\ pc = "call"
    /\ lhs = new /\ rhs = new /\ sum = new /\ bpc = "idle"

ONext ==
    \/ Bypass
    \/ Begin
    \/ \E str_slice \in Slices, value \in OffsetRuleColorizers : PullModifier(str_slice, value)
    \/ Resolve
    \/ Splice
    \/ Return

SpecOffsets == OInit /\ [][ONext]_vars

----------------------------------------------------------------------------
(* colorize with a general Colorizer always given, and rules that carry a colour,
   an attribute or Clear *)

GeneralRuleColorizers == {foreground(new, 1), style(new, Dimmed), style(new, Clear)}

GivenGeneralChoices ==
    {Some(foreground(new, NumColors)), Some(style(background(new, 1), Bold))}

GInit ==
    /\ should_colorize = TRUE
    /\ input \in InputChoices
    /\ general_colorization \in GivenGeneralChoices
    /\ pulled = 0
    /\ foreign_pulled = 0
    /\ ranges_and_modifiers = <<>>
    /\ bounds = <<>>
    /\ segments = <<>>
    /\ spliced = 0
    /\ output = <<>>
    /\ pc = "call"
    /\ lhs = new /\ rhs = new /\ sum = new /\ bpc = "idle"

GNext ==
    \/ Begin
    \/ \E str_slice \in Slices, value \in GeneralRuleColorizers : PullModifier(str_slice, value)
    \/ Resolve
    \/ Splice
    \/ Return

SpecGeneral == GInit /\ [][GNext]_vars

----------------------------------------------------------------------------
(* A caller building two Colorizers and joining them *)

\* the styles the builder is given
BuilderStyles == {STYLES[i + 1] : i \in 0..MaxStyle}

BInit ==
    /\ lhs = new /\ rhs = new /\ sum = new /\ bpc = "build"
    /\ should_colorize = TRUE
    /\ input = [ptr |-> 1, len |-> 0]
    /\ general_colorization = NoColorizer
    /\ pulled = 0
    /\ foreign_pulled = 0
    /\ ranges_and_modifiers = <<>>
    /\ bounds = <<>>
    /\ segments = <<>>
    /\ spliced = 0
    /\ output = <<>>
    /\ pc = "idle"

\* lhs = lhs.foreground(color)
LhsForeground(color) ==
    /\ bpc = "build"
    /\ lhs' = foreground(lhs, color)
    /\ UNCHANGED <<rhs, sum, bpc>>
    /\ UNCHANGED colorizeVars

\* lhs = lhs.background(color)
LhsBackground(color) ==
    /\ bpc = "build"
    /\ lhs' = background(lhs, color)
    /\ UNCHANGED <<rhs, sum, bpc>>
    /\ UNCHANGED colorizeVars

\* lhs = lhs.style(st)
LhsStyle(st) ==
    /\ bpc = "build"
    /\ lhs' = style(lhs, st)
    /\ UNCHANGED <<rhs, sum, bpc>>
    /\ UNCHANGED colorizeVars

\* rhs = rhs.foreground(color)
RhsForeground(color) ==
    /\ bpc = "build"
    /\ rhs' = foreground(rhs, color)
    /\ UNCHANGED <<lhs, sum, bpc>>
    /\ UNCHANGED colorizeVars

\* rhs = rhs.background(color)
RhsBackground(color) ==
    /\ bpc = "build"
    /\ rhs' = background(rhs, color)
    /\ UNCHANGED <<lhs, sum, bpc>>
    /\ UNCHANGED colorizeVars

\* rhs = rhs.style(st)
RhsStyle(st) ==
    /\ bpc = "build"
    /\ rhs' = style(rhs, st)
    /\ UNCHANGED <<lhs, sum, bpc>>
    /\ UNCHANGED colorizeVars

\* sum = lhs.join_with(rhs), also lhs + rhs (impl Add, lines 272-274)
Join ==
    /\ bpc = "build"
    /\ sum' = join_with(lhs, rhs)
    /\ bpc' = "joined"
    /\ UNCHANGED <<lhs, rhs>>
    /\ UNCHANGED colorizeVars

BNext ==
    \/ \E c \in Colors : LhsForeground(c)
    \/ \E c \in Colors : LhsBackground(c)
    \/ \E st \in BuilderStyles : LhsStyle(st)
    \/ \E c \in Colors : RhsForeground(c)
    \/ \E c \in Colors : RhsBackground(c)
    \/ \E st \in BuilderStyles : RhsStyle(st)
    \/ Join

SpecBuilder == BInit /\ [][BNext]_vars

----------------------------------------------------------------------------
(* A caller building one Colorizer and applying it to a text *)

\* apply is given styles up to this index of STYLES (5 is Italic)
MaxRenderStyle == 5

RenderStyles == {STYLES[i + 1] : i \in 0..MaxRenderStyle}

AInit ==
    /\ lhs = new /\ rhs = new /\ sum = new /\ bpc = "build"
    /\ should_colorize = TRUE
    /\ input \in InputChoices
    /\ general_colorization = NoColorizer
    /\ pulled = 0
    /\ foreign_pulled = 0
    /\ ranges_and_modifiers = <<>>
    /\ bounds = <<>>
    /\ segments = <<>>
    /\ spliced = 0
    /\ output = <<>>
    /\ pc = "idle"

\* output = lhs.apply(input)
Render ==
    /\ bpc = "build"
    /\ output' = apply(lhs, Bytes(input))
    /\ bpc' = "applied"
    /\ UNCHANGED <<lhs, rhs, sum>>
    /\ UNCHANGED <<should_colorize, input, general_colorization, pulled, foreign_pulled,
                   ranges_and_modifiers, bounds, segments, spliced, pc>>

ANext ==
    \/ \E c \in Colors : LhsForeground(c)
    \/ \E c \in Colors : LhsBackground(c)
    \/ \E st \in RenderStyles : LhsStyle(st)
    \/ Render

SpecApply == AInit /\ [][ANext]_vars

----------------------------------------------------------------------------
(* Views used by the properties *)

\* the attribute set a style_const stands for, read bit by bit
StyleSet(sc) == {i \in 0..(StyleBits - 1) : (sc \div Pow2(i)) % 2 = 1}

\* a Colorizer as the descriptor of the specification: optional colours, and an
\* attribute set that is absent or present
Descriptor(c) ==
    [fg |-> c.foreground, bg |-> c.background,
     present |-> c.style_const # None,
     attrs |-> IF c.style_const = None THEN {} ELSE StyleSet(c.style_const)]

\* the reference merge: colours of `nw` when present, else of `old`; attributes of
\* the present side, their union when both are present, and a full overwrite by
\* `nw` when both are present and `nw` holds Clear
ReferenceMerge(old, nw) ==
    LET fg == IF nw.fg # None THEN nw.fg ELSE old.fg
        bg == IF nw.bg # None THEN nw.bg ELSE old.bg
    IN  IF ~old.present /\ ~nw.present
            THEN [fg |-> fg, bg |-> bg, present |-> FALSE, attrs |-> {}]
        ELSE IF ~old.present
            THEN [fg |-> fg, bg |-> bg, present |-> TRUE, attrs |-> nw.attrs]
        ELSE IF ~nw.present
            THEN [fg |-> fg, bg |-> bg, present |-> TRUE, attrs |-> old.attrs]
        ELSE IF Clear \in nw.attrs
            THEN [fg |-> nw.fg, bg |-> nw.bg, present |-> TRUE, attrs |-> nw.attrs]
        ELSE [fg |-> fg, bg |-> bg, present |-> TRUE, attrs |-> old.attrs \cup nw.attrs]

\* a Colorizer that sets a foreground and nothing else
OnlyForeground(c) ==
    c.foreground # None /\ c.background = None /\ c.style_const = None

----------------------------------------------------------------------------
(* Properties of join_with and the builder, under SpecBuilder *)

\* C3: joining a Colorizer that carries a foreground and/or a background with the
\* Clear-only Colorizer yields no foreground, no background and the attribute set
\* {Clear}.
C3_ClearResetsFully ==
    (/\ bpc = "joined"
     /\ (lhs.foreground # None \/ lhs.background # None)
     /\ Descriptor(rhs) = [fg |-> None, bg |-> None, present |-> TRUE, attrs |-> {Clear}])
    => Descriptor(sum) = [fg |-> None, bg |-> None, present |-> TRUE, attrs |-> {Clear}]

\* C4: joining with the Colorizer made by one builder step equals taking that step:
\* d.join_with(new().foreground(c)) = d.foreground(c), the same for background(c)
\* and for style(a), Clear included.
C4_JoinMatchesBuilder ==
    bpc = "joined" =>
        /\ \A c \in Colors : rhs = foreground(new, c) => sum = foreground(lhs, c)
        /\ \A c \in Colors : rhs = background(new, c) => sum = background(lhs, c)
        /\ \A st \in BuilderStyles : rhs = style(new, st) => sum = style(lhs, st)

\* C5: join_with(old, new) is the reference merge of the two descriptors.
C5_JoinIsReferenceMerge ==
    bpc = "joined" => Descriptor(sum) = ReferenceMerge(Descriptor(lhs), Descriptor(rhs))

C5_Witness ==
    /\ bpc = "joined"
    /\ lhs.style_const # None /\ lhs.foreground # None /\ lhs.background # None
    /\ rhs.style_const # None /\ Clear \in StyleSet(rhs.style_const)
    /\ rhs.foreground = None /\ rhs.background # None
    /\ sum.foreground = None /\ sum.background = rhs.background

\* C6: the second operand wins: fg(a) joined with fg(b) is fg(b), fg(b) joined with
\* fg(a) is fg(a), and the two results differ when a differs from b.
C6_SecondOperandWins ==
    (bpc = "joined" /\ OnlyForeground(lhs) /\ OnlyForeground(rhs))
    => /\ sum = rhs
       /\ join_with(rhs, lhs) = lhs
       /\ (lhs.foreground # rhs.foreground => sum # join_with(rhs, lhs))

C6_Witness ==
    /\ bpc = "joined" /\ OnlyForeground(lhs) /\ OnlyForeground(rhs)
    /\ lhs.foreground # rhs.foreground
    /\ sum.foreground = rhs.foreground

----------------------------------------------------------------------------
(* Reading a rendered string back, as a terminal does *)

\* the position of the first LOWER_M at or after i (Len + 1 when there is none)
RECURSIVE EndOfEscape(_, _)
EndOfEscape(text, i) ==
    IF i > Len(text) THEN Len(text) + 1
    ELSE IF text[i] = LOWER_M THEN i
    ELSE EndOfEscape(text, i + 1)

\* the text with every escape sequence ESC ... m removed
RECURSIVE StripEscapes(_, _)
StripEscapes(text, i) ==
    IF i > Len(text) THEN <<>>
    ELSE IF text[i] = ESC THEN StripEscapes(text, EndOfEscape(text, i) + 1)
    ELSE <<text[i]>> \o StripEscapes(text, i + 1)

\* the foreground in force at each printed byte: "3c" sets colour c, "0" resets,
\* every other sequence leaves the foreground as it is
RECURSIVE ForegroundAt(_, _, _)
ForegroundAt(text, i, active) ==
    IF i > Len(text) THEN <<>>
    ELSE IF text[i] = ESC
         THEN LET e == EndOfEscape(text, i)
                  params == SubSeq(text, i + 2, e - 1)
                  now == IF params = <<DIGIT0>> THEN None
                         ELSE IF Len(params) = 2 /\ params[1] = DIGIT0 + 3
                              THEN params[2] - DIGIT0
                         ELSE active
              IN  ForegroundAt(text, e + 1, now)
         ELSE <<active>> \o ForegroundAt(text, i + 1, active)

----------------------------------------------------------------------------
(* Properties of colorize, under Spec *)

\* the rules of the Vec whose range contains the whole of start..end
Covering(ranges, start, end) ==
    SelectSeq(ranges, LAMBDA r : r.start <= start /\ end <= r.end)

\* join_with folded from the left over a sequence of rules, from Colorizer::new()
RECURSIVE FoldJoin(_)
FoldJoin(rules) ==
    IF rules = <<>> THEN new
    ELSE join_with(FoldJoin(SubSeq(rules, 1, Len(rules) - 1)), rules[Len(rules)].modifier)

\* has the general Colorizer become the first rule of the Vec
GeneralIsFirst ==
    /\ Len(ranges_and_modifiers) >= 1
    /\ ranges_and_modifiers[1] =
           [start |-> 0, end |-> input.len, modifier |-> unwrap(general_colorization)]

\* the rules of the Vec that came from input_modifiers
ExplicitRules ==
    IF general_colorization # NoColorizer /\ input.len > 0
    THEN Tail(ranges_and_modifiers) ELSE ranges_and_modifiers

\* C1: every pair of adjacent breakpoints has its segment, and a segment's Colorizer
\* is join_with folded left to right from Colorizer::new() over exactly the retained
\* rules covering the segment, in the order supplied, the general Colorizer first.
C1_SegmentIsFoldOfCoveringRules ==
    pc \in {"splice", "done"} /\ should_colorize =>
        /\ (general_colorization # NoColorizer /\ input.len > 0) => GeneralIsFirst
        /\ \A i \in 1..(Len(bounds) - 1) :
               \E j \in 1..Len(segments) :
                   /\ segments[j].start = bounds[i]
                   /\ segments[j].end = bounds[i + 1]
        /\ \A j \in 1..Len(segments) :
               segments[j].modifier =
                   FoldJoin(Covering(ranges_and_modifiers, segments[j].start, segments[j].end))

\* a segment under the general Colorizer and one explicit rule, left out by another
\* rule, whose Colorizer takes fields from both of its rules
C1_Witness ==
    /\ pc = "done" /\ should_colorize
    /\ general_colorization # NoColorizer
    /\ Len(ranges_and_modifiers) = 3
    /\ \E j \in 1..Len(segments) :
          LET cov == Covering(ranges_and_modifiers, segments[j].start, segments[j].end)
          IN  /\ Len(cov) = 2
              /\ segments[j].modifier # cov[1].modifier
              /\ segments[j].modifier # cov[2].modifier

\* do the general Colorizer and all retained rules set a foreground only
ForegroundsOnly ==
    /\ general_colorization # NoColorizer => OnlyForeground(unwrap(general_colorization))
    /\ \A i \in 1..Len(ranges_and_modifiers) : OnlyForeground(ranges_and_modifiers[i].modifier)

\* the foreground the claim expects at byte offset p of the input
ExpectedForeground(p) ==
    LET cov == SelectSeq(ExplicitRules, LAMBDA r : r.start <= p /\ p < r.end)
    IN  IF cov # <<>> THEN cov[Len(cov)].modifier.foreground
        ELSE IF general_colorization # NoColorizer
             THEN unwrap(general_colorization).foreground
        ELSE None

\* C2: when only foregrounds are set, every byte of the input is printed in the
\* foreground of the last supplied retained rule covering it, and in the general
\* Colorizer's foreground where no rule covers it.
C2_LastCoveringRuleWins ==
    (pc = "done" /\ should_colorize /\ ForegroundsOnly) =>
        ForegroundAt(output, 1, None) = [p \in 1..input.len |-> ExpectedForeground(p - 1)]

\* two overlapping rules of different colours, and a byte left to the general one
C2_Witness ==
    /\ pc = "done" /\ should_colorize /\ ForegroundsOnly
    /\ general_colorization # NoColorizer
    /\ Len(ExplicitRules) = 2
    /\ ExplicitRules[1].modifier # ExplicitRules[2].modifier
    /\ ExplicitRules[1].modifier # unwrap(general_colorization)
    /\ \E p \in 0..(input.len - 1) :
          /\ ExplicitRules[1].start <= p /\ p < ExplicitRules[1].end
          /\ ExplicitRules[2].start <= p /\ p < ExplicitRules[2].end
    /\ \E p \in 0..(input.len - 1) :
          \A i \in 1..2 : ~(ExplicitRules[i].start <= p /\ p < ExplicitRules[i].end)


\* the string colorize returns for a collected Vec: every segment spliced in turn
RECURSIVE SpliceAll(_, _)
SpliceAll(out, segs) ==
    IF segs = <<>> THEN out ELSE SpliceAll(splice(out, Head(segs)), Tail(segs))

ResultFor(in, ranges) ==
    SpliceAll(Bytes(in),
              sort_by_start_reversed(windows_to_segments(compute_bounds(ranges), ranges)))

\* C7: a rule whose address range does not cross the input's (a slice of other
\* memory, or one that only touches the input's start or end) has no effect: taking
\* it from the iterator leaves the collected Vec, and all else but the counters of
\* pulled rules, as it was; and the string a call returns depends on the input and
\* the Vec alone.
C7_ForeignRuleHasNoEffect ==
    /\ [][pulled' # pulled =>
             \A s \in {x \in Slices : ~address_ranges_cross(x, input)}, v \in RuleColorizers :
                 PullModifier(s, v) =>
                     UNCHANGED <<should_colorize, input, general_colorization,
                                 ranges_and_modifiers, bounds, segments, spliced, output, pc>>]_vars
    /\ [][(pc' = "done" /\ should_colorize') => output' = ResultFor(input', ranges_and_modifiers')]_vars

\* a call that was given a foreign rule and a rule that styles the input
C7_Witness ==
    /\ pc = "done" /\ should_colorize
    /\ foreign_pulled >= 1
    /\ Len(ExplicitRules) >= 1
    /\ output # Bytes(input)

\* C8: with styling disabled colorize returns the input unchanged, whatever the
\* general Colorizer, and takes no rule from the iterator nor computes anything.
C8_GlobalBypass ==
    ~should_colorize =>
        /\ pc \in {"call", "done"}
        /\ pc = "done" => output = Bytes(input)
        /\ pulled = 0
        /\ ranges_and_modifiers = <<>> /\ bounds = <<>> /\ segments = <<>> /\ spliced = 0

C8_Witness ==
    /\ ~should_colorize /\ pc = "done"
    /\ general_colorization # NoColorizer
    /\ input.len = MaxLen
    /\ output = Bytes(input)

\* C9: colorize(s, None, []) returns s unchanged, styling enabled or not; the
\* placeholder ("", Colorizer::new()) never produces a segment.
C9_IdentityWhenInert ==
    (general_colorization = NoColorizer /\ pulled = 0) =>
        /\ ranges_and_modifiers = <<>>
        /\ segments = <<>>
        /\ pc = "done" => output = Bytes(input)

C9_Witness ==
    /\ general_colorization = NoColorizer /\ pulled = 0
    /\ should_colorize /\ pc = "done"
    /\ input.len = MaxLen
    /\ output = Bytes(input)

\* C10: the input holds no escape sequence, and removing the escape sequences from
\* what colorize returns gives back the input, byte for byte.
C10_RoundTrip ==
    /\ \A i \in 1..input.len : Bytes(input)[i] # ESC
    /\ pc = "done" => StripEscapes(output, 1) = Bytes(input)

\* three segments styled, one of them with nested sequences
C10_Witness ==
    /\ pc = "done" /\ should_colorize
    /\ Len(segments) = 3
    /\ \A j \in 1..3 : segments[j].modifier # new
    /\ \E j \in 1..3 : /\ segments[j].modifier.foreground # None
                       /\ segments[j].modifier.background # None
                       /\ segments[j].modifier.style_const # None
    /\ Len(output) > input.len

----------------------------------------------------------------------------
(* The builder's style *)

\* what style(st) does to a descriptor
StyleStepOk(before, after, st) ==
    /\ after.present
    /\ IF st # Clear
       THEN /\ after.attrs = before.attrs \cup {sytle_to_index(st)}
            /\ after.fg = before.fg
            /\ after.bg = before.bg
       ELSE /\ after.attrs = {sytle_to_index(Clear)}
            /\ after.fg = None
            /\ after.bg = None

\* C12: a builder step style(a) with a other than Clear yields the previous
\* attribute set plus a (exactly {a} when the set was absent) and leaves foreground
\* and background as they were; style(Clear) yields exactly {Clear} and makes
\* foreground and background absent.
C12_StyleBuilder ==
    [][\A st \in RenderStyles :
          LhsStyle(st) => StyleStepOk(Descriptor(lhs), Descriptor(lhs'), st)]_vars

\* lhs was given colours, then Clear, then a foreground and another attribute
C12_Witness ==
    /\ bpc = "build"
    /\ Descriptor(lhs).attrs = {sytle_to_index(Clear), sytle_to_index(Italic)}
    /\ lhs.foreground # None
    /\ lhs.background = None

----------------------------------------------------------------------------
(* The renderer *)

\* the escape sequence the rendered text starts with
OutermostOpening(text) == SubSeq(text, 1, EndOfEscape(text, 1))

\* the position of the first byte that is not part of a leading escape sequence
RECURSIVE FirstTextPos(_, _)
FirstTextPos(text, i) ==
    IF i > Len(text) THEN i
    ELSE IF text[i] = ESC THEN FirstTextPos(text, EndOfEscape(text, i) + 1)
    ELSE i

\* the escape sequence that ends right before the first printed byte
InnermostOpening(text) ==
    LET k == FirstTextPos(text, 1)
        escs == {i \in 1..(k - 1) : text[i] = ESC}
    IN  IF escs = {} THEN <<>>
        ELSE SubSeq(text, CHOOSE i \in escs : \A j \in escs : j <= i, k - 1)

\* the attributes of c that write a code, as indices of STYLES
RenderedStyles(c) == Descriptor(c).attrs \ {sytle_to_index(Clear)}

\* the codes of the attributes in `set`, the highest index first
RECURSIVE StyleCodesDescending(_)
StyleCodesDescending(set) ==
    IF set = {} THEN <<>>
    ELSE LET top == CHOOSE i \in set : \A j \in set : j <= i
         IN  StyleSeq(STYLES[top + 1]) \o StyleCodesDescending(set \ {top})

\* C13: apply with a Colorizer that has no foreground, no background and an absent
\* or empty attribute set returns the text as it is, with no escape byte added.
C13_ApplyNoOp ==
    /\ (/\ bpc = "applied"
        /\ lhs.foreground = None /\ lhs.background = None
        /\ Descriptor(lhs).attrs = {})
           => output = Bytes(input)
    /\ bpc = "applied"
           => /\ apply(Colorizer(None, None, None), Bytes(input)) = Bytes(input)
              /\ apply(Colorizer(None, None, 0), Bytes(input)) = Bytes(input)

C13_Witness ==
    /\ bpc = "applied"
    /\ lhs = new
    /\ input.len = MaxLen
    /\ output = Bytes(input)

\* C14 as stated: when the Colorizer has both a foreground and a background, the
\* foreground code is the innermost one, the opening code closest to the text.
C14_ForegroundInnermost ==
    (/\ bpc = "applied" /\ input.len > 0
     /\ lhs.foreground # None /\ lhs.background # None)
        => InnermostOpening(output) = FgSeq(lhs.foreground)

\* C14, amended: when the Colorizer has both a foreground and a background, the
\* foreground code is the outermost one, the first bytes of the rendered text; the
\* opening code closest to the text is the one of the attribute of lowest index,
\* or the background code when no attribute writes a code.
C14_ForegroundOutermost ==
    (/\ bpc = "applied" /\ input.len > 0
     /\ lhs.foreground # None /\ lhs.background # None)
        => /\ OutermostOpening(output) = FgSeq(lhs.foreground)
           /\ InnermostOpening(output) # FgSeq(lhs.foreground)
           /\ InnermostOpening(output) =
                  IF RenderedStyles(lhs) = {} THEN BgSeq(lhs.background)
                  ELSE StyleSeq(STYLES[(CHOOSE i \in RenderedStyles(lhs) :
                                           \A j \in RenderedStyles(lhs) : i <= j) + 1])

C14_Witness ==
    /\ bpc = "applied" /\ input.len = MaxLen
    /\ lhs.foreground = 1 /\ lhs.background = NumColors
    /\ RenderedStyles(lhs) = {sytle_to_index(Bold), sytle_to_index(Dimmed)}
    /\ OutermostOpening(output) = FgSeq(1)
    /\ InnermostOpening(output) = StyleSeq(Bold)

\* the opening codes apply writes for c: foreground, background, attributes from
\* the highest index to the lowest
ExpectedOpening(c) ==
    (IF c.foreground # None THEN FgSeq(c.foreground) ELSE <<>>)
    \o (IF c.background # None THEN BgSeq(c.background) ELSE <<>>)
    \o StyleCodesDescending(RenderedStyles(c))

\* C15: whatever the order the Colorizer was built in, the rendered text starts
\* with the foreground code, then the background code, then the attribute codes
\* from the highest index of STYLES to the lowest (Italic before Bold), then the
\* text.
C15_OpeningOrder ==
    (bpc = "applied" /\ input.len > 0)
        => LET opening == ExpectedOpening(lhs)
           IN  /\ SubSeq(output, 1, Len(opening)) = opening
               /\ FirstTextPos(output, 1) = Len(opening) + 1
               /\ output[Len(opening) + 1] = Bytes(input)[1]

C15_Witness ==
    /\ bpc = "applied" /\ input.len = MaxLen
    /\ lhs.foreground = NumColors /\ lhs.background = 1
    /\ RenderedStyles(lhs) = {sytle_to_index(Bold), sytle_to_index(Italic)}
    /\ LET opening == FgSeq(NumColors) \o BgSeq(1) \o StyleSeq(Italic) \o StyleSeq(Bold)
       IN  SubSeq(output, 1, Len(opening)) = opening

----------------------------------------------------------------------------
(* Lengths, breakpoints and gaps of colorize, under SpecOffsets *)

\* C11: the string colorize returns is at least as long as the input, and it is
\* empty exactly when the input is empty, also when a general Colorizer or a rule
\* whose slice encloses the empty input is given.
C11_OutputLength ==
    pc = "done" =>
        /\ Len(output) >= input.len
        /\ (output = <<>>) <=> (input.len = 0)

\* an empty input, a general Colorizer and a pulled rule whose slice crosses it
C11_Witness ==
    /\ pc = "done" /\ should_colorize
    /\ input.len = 0
    /\ general_colorization # NoColorizer
    /\ pulled > foreign_pulled
    /\ output = <<>>

\* the distinct start and end offsets of the rules of the Vec
Breakpoints(ranges) ==
    {ranges[i].start : i \in 1..Len(ranges)} \cup {ranges[i].end : i \in 1..Len(ranges)}

\* C16: with at least one retained rule (the general one included) the number of
\* segments is the number of distinct breakpoints minus one; with no retained rule
\* there is no segment.
C16_SegmentCount ==
    (pc \in {"splice", "done"} /\ should_colorize) =>
        IF ranges_and_modifiers = <<>>
        THEN Len(segments) = 0
        ELSE Len(segments) = Cardinality(Breakpoints(ranges_and_modifiers)) - 1

\* three retained rules sharing endpoints: four breakpoints, three segments
C16_Witness ==
    /\ pc = "splice"
    /\ Len(ranges_and_modifiers) = 3
    /\ Cardinality(Breakpoints(ranges_and_modifiers)) = 4
    /\ Len(segments) = 3

\* the segments whose range no rule of the Vec contains
GapSegments ==
    {j \in 1..Len(segments) :
        Covering(ranges_and_modifiers, segments[j].start, segments[j].end) = <<>>}

\* C17 as stated: no segment is emitted for a range between two consecutive
\* breakpoints that no retained rule spans; every segment is covered by at least
\* one retained rule.
C17_NoSegmentInGap ==
    (pc \in {"splice", "done"} /\ should_colorize) => GapSegments = {}

\* C17, amended: a range between two consecutive breakpoints that no retained rule
\* spans does get a segment, whose Colorizer is Colorizer::new(); applying it
\* leaves the text of the range as it is, so the gap reaches the output unstyled.
C17_GapSegmentIsEmpty ==
    (pc \in {"splice", "done"} /\ should_colorize) =>
        \A j \in GapSegments :
            LET text == SubSeq(Bytes(input), segments[j].start + 1, segments[j].end)
            IN  /\ segments[j].modifier = new
                /\ apply(segments[j].modifier, text) = text
                /\ splice(Bytes(input), segments[j]) = Bytes(input)

\* two disjoint rules with a gap between them and no general Colorizer
C17_Witness ==
    /\ pc = "done" /\ should_colorize
    /\ general_colorization = NoColorizer
    /\ Len(ranges_and_modifiers) = 2
    /\ Len(segments) = 3
    /\ GapSegments # {}
    /\ \A i \in 1..2 : ranges_and_modifiers[i].modifier.foreground # None

----------------------------------------------------------------------------
(* Clamping and splicing, under SpecOffsets *)

\* the bytes a rule slice shares with the input, as offsets from the input's start
Intersection(in, str_slice) ==
    LET lo == IF str_slice.ptr >= in.ptr THEN str_slice.ptr ELSE in.ptr
        hi == IF str_slice.ptr + str_slice.len <= in.ptr + in.len
              THEN str_slice.ptr + str_slice.len ELSE in.ptr + in.len
    IN  [start |-> lo - in.ptr, end |-> hi - in.ptr]

\* C18: every retained rule's offsets satisfy 0 <= start < end <= len(input) and
\* are the intersection of the rule slice's addresses with the input's, counted
\* from the input's start: a slice reaching before or after the input is cut to
\* the input, and a rule with an empty intersection is dropped.
C18_Clamping ==
    /\ [][pulled' # pulled =>
             \A s \in Slices, v \in OffsetRuleColorizers :
                 PullModifier(s, v) =>
                     LET cut == Intersection(input, s)
                     IN  IF cut.start < cut.end
                         THEN ranges_and_modifiers' =
                                  Append(ranges_and_modifiers,
                                         [start |-> cut.start, end |-> cut.end, modifier |-> v])
                         ELSE ranges_and_modifiers' = ranges_and_modifiers]_vars
    /\ [][\A i \in 1..Len(ranges_and_modifiers') :
             /\ 0 <= ranges_and_modifiers'[i].start
             /\ ranges_and_modifiers'[i].start < ranges_and_modifiers'[i].end
             /\ ranges_and_modifiers'[i].end <= input'.len]_vars

\* a rule retained over the whole input, and a pulled rule that crossed the input's
\* addresses but was dropped
C18_Witness ==
    /\ pc = "collect"
    /\ input.len = MaxLen
    /\ general_colorization = NoColorizer
    /\ Len(ranges_and_modifiers) = 1
    /\ ranges_and_modifiers[1].start = 0
    /\ ranges_and_modifiers[1].end = MaxLen
    /\ pulled - foreign_pulled = 2

\* C19: the segments are spliced in strictly descending order of start; when a
\* segment (start, end) is about to be spliced, the first `end` bytes of the output
\* are still the first `end` bytes of the input, so start..end is within bounds and
\* addresses the segment's original text; each segment is spliced exactly once.
C19_SpliceOrder ==
    (pc \in {"splice", "done"} /\ should_colorize) =>
        /\ \A i, j \in 1..Len(segments) : i < j => segments[i].start > segments[j].start
        /\ spliced <= Len(segments)
        /\ pc = "done" => spliced = Len(segments)
        /\ output = SpliceAll(Bytes(input), SubSeq(segments, 1, spliced))
        /\ spliced < Len(segments) =>
               LET seg == segments[spliced + 1]
               IN  /\ seg.start < seg.end
                   /\ seg.end <= Len(output)
                   /\ SubSeq(output, 1, seg.end) = SubSeq(Bytes(input), 1, seg.end)

\* two segments spliced, which made the output longer, and a third one to go
C19_Witness ==
    /\ pc = "splice"
    /\ Len(segments) = 3
    /\ spliced = 2
    /\ Len(output) > input.len + Len(ResetSeq)
    /\ segments[3].modifier # new

----------------------------------------------------------------------------
(* The general Colorizer, under SpecGeneral *)

\* the last element of `rules` for which Sets holds, as a one-element sequence
LastSetter(rules, Sets(_)) ==
    LET setters == SelectSeq(rules, Sets)
    IN  IF setters = <<>> THEN <<>> ELSE <<setters[Len(setters)]>>

HoldsClear(r) ==
    r.modifier.style_const # None /\ sytle_to_index(Clear) \in StyleSet(r.modifier.style_const)

\* do the segments cover every byte of the input, each byte once
SegmentsCoverInput ==
    \A p \in 0..(input.len - 1) :
        Cardinality({j \in 1..Len(segments) :
                        segments[j].start <= p /\ p < segments[j].end}) = 1

\* have the segments just been built: they stay as they are until colorize returns
SegmentsBuilt == pc = "splice" /\ spliced = 0

\* is a segment without a covering explicit rule given the general Colorizer
GeneralWhereNoRule ==
    \A j \in 1..Len(segments) :
        Covering(ExplicitRules, segments[j].start, segments[j].end) = <<>>
            => segments[j].modifier = unwrap(general_colorization)

\* is the whole input rendered with the general Colorizer when no explicit rule is
\* retained
GeneralAloneRendersInput ==
    (pc = "done" /\ ExplicitRules = <<>>)
        => output = apply(unwrap(general_colorization), Bytes(input))

\* is a colour set by a covering explicit rule the segment's colour, or reset by a
\* covering explicit rule with Clear that comes after it
ExplicitColoursReplace(seg, cov) ==
    /\ LET last == LastSetter(cov, LAMBDA r : r.modifier.foreground # None)
       IN  last # <<>> =>
               \/ seg.modifier.foreground = last[1].modifier.foreground
               \/ seg.modifier.foreground = None /\ \E i \in 1..Len(cov) : HoldsClear(cov[i])
    /\ LET last == LastSetter(cov, LAMBDA r : r.modifier.background # None)
       IN  last # <<>> =>
               \/ seg.modifier.background = last[1].modifier.background
               \/ seg.modifier.background = None /\ \E i \in 1..Len(cov) : HoldsClear(cov[i])

\* C20 as stated: with a general Colorizer and a non-empty input the segments cover
\* the whole input without a gap, a byte no retained explicit rule covers gets
\* exactly the general Colorizer, and where explicit rules cover a byte every field
\* an explicit rule sets (foreground, background, attributes) takes the place of the
\* general Colorizer's value for that field.
C20_ExplicitFieldsOverride ==
    (pc \in {"splice", "done"} /\ input.len > 0) =>
        /\ GeneralIsFirst
        /\ GeneralAloneRendersInput
        /\ SegmentsBuilt =>
           /\ SegmentsCoverInput
           /\ GeneralWhereNoRule
           /\ \A j \in 1..Len(segments) :
                  LET cov == Covering(ExplicitRules, segments[j].start, segments[j].end)
                  IN  /\ ExplicitColoursReplace(segments[j], cov)
                      /\ (\E i \in 1..Len(cov) : cov[i].modifier.style_const # None)
                             => segments[j].modifier.style_const = FoldJoin(cov).style_const

\* C20, amended: with a general Colorizer and a non-empty input the segments cover
\* the whole input without a gap, a byte no retained explicit rule covers gets
\* exactly the general Colorizer, and where explicit rules cover a byte a foreground
\* or background set by an explicit rule takes the place of the general one (the
\* last such rule's colour, or none when a covering Clear rule reset it), while the
\* attributes of the explicit rules are added to those of the general Colorizer,
\* and take their place only when a covering explicit rule holds Clear.
C20_GeneralLowestPrecedence ==
    (pc \in {"splice", "done"} /\ input.len > 0) =>
        /\ GeneralIsFirst
        /\ GeneralAloneRendersInput
        /\ SegmentsBuilt =>
           /\ SegmentsCoverInput
           /\ GeneralWhereNoRule
           /\ \A j \in 1..Len(segments) :
                  LET cov == Covering(ExplicitRules, segments[j].start, segments[j].end)
                      general == Descriptor(unwrap(general_colorization))
                  IN  /\ ExplicitColoursReplace(segments[j], cov)
                      /\ (\E i \in 1..Len(cov) : cov[i].modifier.style_const # None)
                             => Descriptor(segments[j].modifier).attrs =
                                    Descriptor(FoldJoin(cov)).attrs
                                    \cup (IF \E i \in 1..Len(cov) : HoldsClear(cov[i])
                                          THEN {} ELSE general.attrs)

\* a general Colorizer with a background and Bold, a byte left to it, and a byte
\* under rules setting a foreground and Dimmed
C20_Witness ==
    /\ pc = "done"
    /\ unwrap(general_colorization).background # None
    /\ \E j, k \in 1..Len(segments) :
          /\ segments[j].modifier = unwrap(general_colorization)
          /\ Len(Covering(ExplicitRules, segments[k].start, segments[k].end)) = 2
          /\ segments[k].modifier.foreground = 1
          /\ segments[k].modifier.background = 1
          /\ Descriptor(segments[k].modifier).attrs =
                 {sytle_to_index(Bold), sytle_to_index(Dimmed)}

----------------------------------------------------------------------------
(* Algebra of join_with, under SpecBuilder *)

\* the Colorizers joined to lhs + rhs as a third operand
ThirdOperands ==
    {new, foreground(new, 1), style(new, Clear), style(background(new, NumColors), Bold)}

\* C21: join_with is associative: for all Colorizers a, b and c, also ones without
\* a style_const and ones holding Clear, (a + b) + c equals a + (b + c).
C21_JoinAssociative ==
    bpc = "joined" =>
        \A c \in ThirdOperands :
            join_with(sum, c) = join_with(lhs, join_with(rhs, c))

\* C22: Colorizer::new() is an identity of join_with on both sides: new() + d and
\* d + new() equal d for every Colorizer d; so the per-segment fold seeded with
\* Colorizer::new() over a single covering rule yields that rule's Colorizer.
C22_NewIsIdentity ==
    /\ bpc = "joined" =>
           /\ lhs = new => sum = rhs
           /\ rhs = new => sum = lhs
    /\ \A d \in {lhs, rhs, sum} :
           /\ join_with(new, d) = d
           /\ join_with(d, new) = d
           /\ compose(new, <<[start |-> 0, end |-> MaxLen, modifier |-> d]>>, 0, MaxLen) = d

\* a Colorizer with both colours, Clear and Bold was joined with Colorizer::new()
C22_Witness ==
    /\ bpc = "joined"
    /\ rhs = new
    /\ lhs.foreground # None /\ lhs.background # None
    /\ Descriptor(lhs).attrs = {sytle_to_index(Clear), sytle_to_index(Bold)}
    /\ sum = lhs

----------------------------------------------------------------------------
(* Segments and rule edges, under SpecOffsets *)

\* C23: the segments are non-empty, pairwise disjoint, ascending and contiguous
\* from the smallest to the largest breakpoint, and each of them lies entirely
\* inside or entirely outside every retained rule's range, so that the strict
\* overlap test of the composition selects exactly the rules containing the whole
\* segment.
C23_NoSegmentStraddlesEdge ==
    SegmentsBuilt =>
        LET segs == windows_to_segments(bounds, ranges_and_modifiers)
            points == Breakpoints(ranges_and_modifiers)
        IN  /\ {segments[j] : j \in 1..Len(segments)} = {segs[j] : j \in 1..Len(segs)}
            /\ Len(segments) = Len(segs)
            /\ \A j \in 1..Len(segs) : segs[j].start < segs[j].end
            /\ \A j \in 1..(Len(segs) - 1) : segs[j].end = segs[j + 1].start
            /\ segs # <<>> =>
                   /\ \A b \in points : segs[1].start <= b /\ b <= segs[Len(segs)].end
                   /\ segs[1].start \in points /\ segs[Len(segs)].end \in points
            /\ \A j \in 1..Len(segs) : \A i \in 1..Len(ranges_and_modifiers) :
                   LET r == ranges_and_modifiers[i]
                       inside == r.start <= segs[j].start /\ segs[j].end <= r.end
                       outside == segs[j].end <= r.start \/ r.end <= segs[j].start
                   IN  /\ inside \/ outside
                       /\ range_contains_other(r.start, r.end, segs[j].start, segs[j].end)
                              <=> inside

\* two rules that overlap in part: each has an edge inside the other one
C23_Witness ==
    /\ SegmentsBuilt
    /\ Len(ranges_and_modifiers) = 2
    /\ ranges_and_modifiers[1].start < ranges_and_modifiers[2].start
    /\ ranges_and_modifiers[2].start < ranges_and_modifiers[1].end
    /\ ranges_and_modifiers[1].end < ranges_and_modifiers[2].end
    /\ Len(segments) = 3

====
